---- MODULE Spec2Model ----
(***************************************************************************)
(* Construction of nn_builder.pytorch.CNN: validation of the constructor   *)
(* arguments, the hidden-layer factory, the output-layer factory and the   *)
(* parameter initialisation, as one pass of the constructor.               *)
(*                                                                         *)
(* A layer specification ["conv", 16, 3, 1, 1] is the tuple                *)
(* <<tag, 16, 3, 1, 1>>: Python index k is TLA+ index k + 1.  A tag is a   *)
(* sequence of one-character strings so that str.lower() is computed       *)
(* character by character.                                                 *)
(***************************************************************************)
EXTENDS Integers, Sequences, FiniteSets, TLC

\* Longest hidden_layers_info explored.
MaxLayers == 2

\* How often create_output_layers is called again on a built network.
MaxRecalls == 1

----------------------------------------------------------------------------
(* str.lower() *)

UpperLetters == <<"A","B","C","D","E","F","G","H","I","J","K","L","M",
                  "N","O","P","Q","R","S","T","U","V","W","X","Y","Z">>

LowerLetters == <<"a","b","c","d","e","f","g","h","i","j","k","l","m",
                  "n","o","p","q","r","s","t","u","v","w","x","y","z">>

\* The lower-case letter of every upper-case letter.
ToLower ==
    [c \in {UpperLetters[k] : k \in DOMAIN UpperLetters} |->
        LowerLetters[CHOOSE k \in DOMAIN UpperLetters : UpperLetters[k] = c]]

LowerChar(c) == IF c \in DOMAIN ToLower THEN ToLower[c] ELSE c

Lower(s) == [k \in DOMAIN s |-> LowerChar(s[k])]

----------------------------------------------------------------------------
(* Layer tags *)

conv            == <<"c","o","n","v">>
maxpool         == <<"m","a","x","p","o","o","l">>
avgpool         == <<"a","v","g","p","o","o","l">>
adaptivemaxpool == <<"a","d","a","p","t","i","v","e","m","a","x","p","o","o","l">>
adaptiveavgpool == <<"a","d","a","p","t","i","v","e","a","v","g","p","o","o","l">>
linear          == <<"l","i","n","e","a","r">>

valid_cnn_hidden_layer_types ==
    {conv, maxpool, avgpool, adaptivemaxpool, adaptiveavgpool, linear}

\* Spellings a caller may write, among them mixed case and an unknown tag.
ConvCap            == <<"C","o","n","v">>
LinearUpper        == <<"L","I","N","E","A","R">>
AdaptiveAvgPoolCap == <<"A","d","a","p","t","i","v","e","A","v","g","P","o","o","l">>
dense              == <<"d","e","n","s","e">>

TagSpellings ==
    valid_cnn_hidden_layer_types \cup {ConvCap, LinearUpper, AdaptiveAvgPoolCap, dense}

----------------------------------------------------------------------------
(* Constructor arguments *)

LayerSpecs ==
    { <<conv, 16, 3, 1, 0>>,
      <<maxpool, 2, 1, 0>>,
      <<avgpool, 2, 1, 0>>,
      <<adaptivemaxpool, 2, 3>>,
      <<AdaptiveAvgPoolCap, 4, 4>>,
      <<LinearUpper, 5, 4>>,
      <<dense, 8>> }

RECURSIVE SeqsUpTo(_, _)
SeqsUpTo(S, n) ==
    IF n = 0 THEN { <<>> }
    ELSE LET shorter == SeqsUpTo(S, n - 1)
         IN  shorter \cup { Append(s, e) : s \in shorter, e \in S }

HiddenLayersInfos == SeqsUpTo(LayerSpecs, MaxLayers)

InputDims == {1, 3}

\* output_dim is an integer or a list of integers.
IntDim(d)   == [kind |-> "int", value |-> d]
ListDim(ds) == [kind |-> "list", value |-> ds]

OutputDims == { IntDim(10), ListDim(<<2, 3>>), ListDim(<<10>>) }

\* The constructor arguments that the five checks of Base_Network look at;
\* an argument is in bad_fields when its check raises.
OtherFields == {"input_dim", "output_dim", "activations", "initialiser", "y_range"}

----------------------------------------------------------------------------
(* State *)

VARIABLES
    hidden_layers_info,   \* self.hidden_layers_info
    input_dim,            \* self.input_dim
    output_dim,           \* self.output_dim
    output_dim_arg,       \* output_dim as the caller passed it
    bad_fields,           \* arguments whose check raises
    print_model_summary,  \* constructor argument
    pc,                   \* position of the constructor
    checked,              \* checks executed by check_all_user_inputs_valid
    error,                \* the exception that ended construction
    hidden_layers,        \* self.hidden_layers
    output_layers,        \* self.output_layers
    built,                \* layer objects instantiated so far
    phases,               \* phases started, in order
    completed,            \* phases that returned normally, in order
    initialised,          \* collections handed to initialise_parameters
    recalls,              \* later calls of create_output_layers
    recall_result         \* what the latest such call returned

vars == <<hidden_layers_info, input_dim, output_dim, output_dim_arg, bad_fields,
          print_model_summary, pc, checked, error, hidden_layers,
          output_layers, built, phases, completed, initialised, recalls,
          recall_result>>

args == <<hidden_layers_info, input_dim, output_dim_arg, bad_fields,
          print_model_summary>>

Init ==
    /\ hidden_layers_info \in HiddenLayersInfos
    /\ input_dim \in InputDims
    /\ output_dim \in OutputDims
    /\ output_dim_arg = output_dim
    /\ bad_fields \in SUBSET OtherFields
    /\ print_model_summary \in BOOLEAN
    /\ pc = "validate"
    /\ checked = <<>>
    /\ error = "none"
    /\ hidden_layers = <<>>
    /\ output_layers = <<>>
    /\ built = 0
    /\ phases = <<>>
    /\ completed = <<>>
    /\ initialised = <<>>
    /\ recalls = 0
    /\ recall_result = <<>>

----------------------------------------------------------------------------
(* check_all_user_inputs_valid *)

\* The checks, in the order in which they are called.
CheckOrderSkippingLayers ==
    <<"input_dim", "output_dim", "activations", "initialiser", "y_range">>

CheckOrderLayersFirst ==
    <<"hidden_layers", "input_dim", "output_dim", "activations", "initialiser",
      "y_range">>

CheckOrder ==
    <<"input_dim", "output_dim", "hidden_layers", "activations", "initialiser",
      "y_range">>

\* check_cnn_hidden_layers_valid raises when some entry carries a tag that is
\* not a valid layer type.
check_cnn_hidden_layers_valid(info) ==
    \E i \in DOMAIN info : Lower(info[i][1]) \notin valid_cnn_hidden_layer_types

\* Whether the check of one field raises.
CheckRaises(field, info, bad) ==
    IF field = "hidden_layers"
    THEN check_cnn_hidden_layers_valid(info)
    ELSE field \in bad

\* Runs the checks from position k on; the first one that raises ends the run.
RECURSIVE RunChecks(_, _, _, _, _)
RunChecks(order, k, info, bad, done) ==
    IF k > Len(order)
    THEN [checked |-> done, error |-> "none"]
    ELSE IF CheckRaises(order[k], info, bad)
         THEN [checked |-> Append(done, order[k]), error |-> order[k]]
         ELSE RunChecks(order, k + 1, info, bad, Append(done, order[k]))

check_all_user_inputs_valid(info, bad) ==
    RunChecks(CheckOrder, 1, info, bad, <<>>)

----------------------------------------------------------------------------
(* create_hidden_layers *)

LayerNameAsWritten(layer) == layer[1]

LayerName(layer) == Lower(layer[1])

\* The layer object built for one entry.
BuildLayerSwappingPools(layer_name, layer, in_channels) ==
    CASE layer_name = conv ->
            [kind |-> "Conv2d", in_channels |-> in_channels,
             out_channels |-> layer[2], kernel_size |-> layer[3],
             stride |-> layer[4], padding |-> layer[5]]
      [] layer_name = maxpool ->
            [kind |-> "AvgPool2d", kernel_size |-> layer[2],
             stride |-> layer[3], padding |-> layer[4]]
      [] layer_name = avgpool ->
            [kind |-> "MaxPool2d", kernel_size |-> layer[2],
             stride |-> layer[3], padding |-> layer[4]]
      [] layer_name = adaptivemaxpool ->
            [kind |-> "AdaptiveMaxPool2d", output_size |-> <<layer[2], layer[3]>>]
      [] layer_name = adaptiveavgpool ->
            [kind |-> "AdaptiveAvgPool2d", output_size |-> <<layer[2], layer[3]>>]
      [] layer_name = linear ->
            [kind |-> "Linear", in_features |-> layer[2],
             out_features |-> layer[3]]

BuildLayer(layer_name, layer, in_channels) ==
    CASE layer_name = conv ->
            [kind |-> "Conv2d", in_channels |-> in_channels,
             out_channels |-> layer[2], kernel_size |-> layer[3],
             stride |-> layer[4], padding |-> layer[5]]
      [] layer_name = maxpool ->
            [kind |-> "MaxPool2d", kernel_size |-> layer[2],
             stride |-> layer[3], padding |-> layer[4]]
      [] layer_name = avgpool ->
            [kind |-> "AvgPool2d", kernel_size |-> layer[2],
             stride |-> layer[3], padding |-> layer[4]]
      [] layer_name = adaptivemaxpool ->
            [kind |-> "AdaptiveMaxPool2d", output_size |-> <<layer[2], layer[3]>>]
      [] layer_name = adaptiveavgpool ->
            [kind |-> "AdaptiveAvgPool2d", output_size |-> <<layer[2], layer[3]>>]
      [] layer_name = linear ->
            [kind |-> "Linear", in_features |-> layer[2],
             out_features |-> layer[3]]

\* The running channel count after one entry: only a convolution sets it.
NextInChannelsAlsoLinear(layer_name, layer, in_channels) ==
    IF layer_name = conv THEN layer[2]
    ELSE IF layer_name = linear THEN layer[3]
    ELSE in_channels

NextInChannels(layer_name, layer, in_channels) ==
    IF layer_name = conv THEN layer[2] ELSE in_channels

\* The loop over hidden_layers_info from entry i on.  An invalid name raises
\* and the layers built so far are dropped with the local list.
RECURSIVE HiddenLoop(_, _, _, _)
HiddenLoop(info, i, in_channels, cnn_hidden_layers) ==
    IF i > Len(info)
    THEN [layers |-> cnn_hidden_layers, error |-> "none",
          built |-> Len(cnn_hidden_layers)]
    ELSE LET layer      == info[i]
             layer_name == LayerName(layer)
         IN  IF layer_name \notin valid_cnn_hidden_layer_types
             THEN [layers |-> <<>>, error |-> "AssertionError: layer name not valid",
                   built |-> Len(cnn_hidden_layers)]
             ELSE HiddenLoop(info, i + 1,
                             NextInChannels(layer_name, layer, in_channels),
                             Append(cnn_hidden_layers,
                                    BuildLayer(layer_name, layer, in_channels)))

create_hidden_layers(in_dim, info) == HiddenLoop(info, 1, in_dim, <<>>)

----------------------------------------------------------------------------
(* create_output_layers *)

LastLayerNameAsWritten(info) == info[Len(info)][1]

LastLayerName(info) == Lower(info[Len(info)][1])

\* The input width of the heads, read from the last hidden layer.
OutputInputDimSquaringHeight(info, layers) ==
    LET last == layers[Len(layers)]
    IN  IF LastLayerName(info) \in {adaptivemaxpool, adaptiveavgpool}
        THEN [error |-> "none", input_dim |-> last.output_size[1] * last.output_size[1]]
        ELSE IF LastLayerName(info) = linear
        THEN [error |-> "none", input_dim |-> last.out_features]
        ELSE [error |-> "ValueError: don't know dimensions for output layer",
              input_dim |-> 0]

OutputInputDim(info, layers) ==
    LET last == layers[Len(layers)]
    IN  IF LastLayerName(info) \in {adaptivemaxpool, adaptiveavgpool}
        THEN [error |-> "none", input_dim |-> last.output_size[1] * last.output_size[2]]
        ELSE IF LastLayerName(info) = linear
        THEN [error |-> "none", input_dim |-> last.out_features]
        ELSE [error |-> "ValueError: don't know dimensions for output layer",
              input_dim |-> 0]

\* if not isinstance(self.output_dim, list): self.output_dim = [self.output_dim]
NormaliseOutputDimNotStored(od) == od

NormaliseOutputDim(od) ==
    IF od.kind = "list" THEN od ELSE ListDim(<<od.value>>)

\* The dimensions the loop over self.output_dim visits.
DimsOf(od) == IF od.kind = "list" THEN od.value ELSE <<od.value>>

\* One linear head per dimension, in order.
OutputHeadsFirstDimOnly(width, dims) ==
    [k \in DOMAIN dims |->
        [kind |-> "Linear", in_features |-> width, out_features |-> dims[1]]]

OutputHeads(width, dims) ==
    [k \in DOMAIN dims |->
        [kind |-> "Linear", in_features |-> width, out_features |-> dims[k]]]

create_output_layers(info, layers, od) ==
    IF Len(info) = 0
    THEN [layers |-> <<>>, error |-> "IndexError", output_dim |-> od, built |-> 0]
    ELSE LET w == OutputInputDim(info, layers)
         IN  IF w.error # "none"
             THEN [layers |-> <<>>, error |-> w.error, output_dim |-> od,
                   built |-> 0]
             ELSE LET heads == OutputHeads(w.input_dim, DimsOf(od))
                  IN  [layers |-> heads, error |-> "none",
                       output_dim |-> NormaliseOutputDim(od),
                       built |-> Len(heads)]

----------------------------------------------------------------------------
(* initialise_all_parameters *)

initialise_all_parameters == <<"hidden_layers", "output_layers">>

----------------------------------------------------------------------------
(* The constructor *)

\* The phases of construction, in order; the summary is optional.
PhaseOrderInitFirst ==
    <<"validate", "initialise", "create_hidden", "create_output", "summary">>

PhaseOrder ==
    <<"validate", "create_hidden", "create_output", "initialise", "summary">>

\* The phase after phase p, "done" after the last one.
NextPhase(p, summary) ==
    LET k == CHOOSE j \in DOMAIN PhaseOrder : PhaseOrder[j] = p
    IN  IF k = Len(PhaseOrder) THEN "done"
        ELSE IF PhaseOrder[k + 1] = "summary" /\ ~summary
             THEN (IF k + 1 = Len(PhaseOrder) THEN "done" ELSE PhaseOrder[k + 2])
             ELSE PhaseOrder[k + 1]

\* A phase that raised ends construction.
Raise(e) ==
    /\ pc' = "failed"
    /\ error' = e
    /\ completed' = completed

Return(p) ==
    /\ pc' = NextPhase(p, print_model_summary)
    /\ error' = error
    /\ completed' = Append(completed, p)

Validate ==
    /\ pc = "validate"
    /\ phases' = Append(phases, "validate")
    /\ LET r == check_all_user_inputs_valid(hidden_layers_info, bad_fields)
       IN  /\ checked' = r.checked
           /\ IF r.error # "none" THEN Raise(r.error) ELSE Return("validate")
    /\ UNCHANGED <<args, output_dim, hidden_layers, output_layers, built,
                   initialised, recalls, recall_result>>

CreateHiddenLayers ==
    /\ pc = "create_hidden"
    /\ phases' = Append(phases, "create_hidden")
    /\ LET r == create_hidden_layers(input_dim, hidden_layers_info)
       IN  /\ built' = built + r.built
           /\ IF r.error # "none"
              THEN Raise(r.error) /\ hidden_layers' = hidden_layers
              ELSE Return("create_hidden") /\ hidden_layers' = r.layers
    /\ UNCHANGED <<args, output_dim, checked, output_layers, initialised,
                   recalls, recall_result>>

CreateOutputLayers ==
    /\ pc = "create_output"
    /\ phases' = Append(phases, "create_output")
    /\ LET r == create_output_layers(hidden_layers_info, hidden_layers, output_dim)
       IN  /\ built' = built + r.built
           /\ output_dim' = r.output_dim
           /\ IF r.error # "none"
              THEN Raise(r.error) /\ output_layers' = output_layers
              ELSE Return("create_output") /\ output_layers' = r.layers
    /\ UNCHANGED <<args, checked, hidden_layers, initialised, recalls,
                   recall_result>>

InitialiseAllParameters ==
    /\ pc = "initialise"
    /\ phases' = Append(phases, "initialise")
    /\ initialised' = initialise_all_parameters
    /\ Return("initialise")
    /\ UNCHANGED <<args, output_dim, checked, hidden_layers, output_layers,
                   built, recalls, recall_result>>

PrintModelSummary ==
    /\ pc = "summary"
    /\ phases' = Append(phases, "summary")
    /\ Return("summary")
    /\ UNCHANGED <<args, output_dim, checked, hidden_layers, output_layers,
                   built, initialised, recalls, recall_result>>

\* create_output_layers called again on the constructed network.
CallCreateOutputLayersAgain ==
    /\ pc = "done"
    /\ recalls < MaxRecalls
    /\ recalls' = recalls + 1
    /\ LET r == create_output_layers(hidden_layers_info, hidden_layers, output_dim)
       IN  /\ built' = built + r.built
           /\ output_dim' = r.output_dim
           /\ recall_result' = r.layers
    /\ UNCHANGED <<args, pc, checked, error, hidden_layers, output_layers,
                   phases, completed, initialised>>

Next ==
    \/ Validate
    \/ CreateHiddenLayers
    \/ CreateOutputLayers
    \/ InitialiseAllParameters
    \/ PrintModelSummary
    \/ CallCreateOutputLayersAgain

Spec == Init /\ [][Next]_vars

----------------------------------------------------------------------------
(* Vocabulary of the properties *)

\* Entry e carries the layer type name, in whatever letter case.
TagIs(e, name) == Lower(e[1]) = name

HasValidTag(e) == \E name \in valid_cnn_hidden_layer_types : TagIs(e, name)

HasInvalidTag(info) == \E i \in DOMAIN info : ~HasValidTag(info[i])

LastEntry == hidden_layers_info[Len(hidden_layers_info)]

\* The last entry is one from which the output width is derivable.
LastIsDerivable ==
    /\ hidden_layers_info # <<>>
    /\ \/ TagIs(LastEntry, linear)
       \/ TagIs(LastEntry, adaptivemaxpool)
       \/ TagIs(LastEntry, adaptiveavgpool)

LastIsAdaptive ==
    /\ hidden_layers_info # <<>>
    /\ TagIs(LastEntry, adaptivemaxpool) \/ TagIs(LastEntry, adaptiveavgpool)

\* The output sizes the caller asked for, in order.
RequestedDims ==
    IF output_dim_arg.kind = "list" THEN output_dim_arg.value
    ELSE <<output_dim_arg.value>>

HiddenBuilt == \E k \in DOMAIN completed : completed[k] = "create_hidden"

OutputBuilt == \E k \in DOMAIN completed : completed[k] = "create_output"

OutputStarted == \E k \in DOMAIN phases : phases[k] = "create_output"

Finished == pc \in {"failed", "done"}

DontKnowDimensions == "ValueError: don't know dimensions for output layer"

\* One head per requested dimension, in order, all of one input width.
HeadsAsRequested(heads) ==
    /\ Len(heads) = Len(RequestedDims)
    /\ output_dim_arg.kind = "int" => Len(heads) = 1
    /\ \A i \in DOMAIN heads :
          /\ heads[i].kind = "Linear"
          /\ heads[i].out_features = RequestedDims[i]
    /\ \A i, j \in DOMAIN heads : heads[i].in_features = heads[j].in_features

----------------------------------------------------------------------------
(* C1 *)

\* C1: when the last hidden entry is linear or an adaptive pool,
\* create_output_layers returns one linear head per requested output
\* dimension, in the order requested (one head for an integer output_dim),
\* the i-th head of size output_dim[i], all heads of the same input width.
C1_OneHeadPerOutputDim ==
    /\ (OutputStarted /\ LastIsDerivable) =>
          /\ OutputBuilt
          /\ HeadsAsRequested(output_layers)
    /\ (recalls > 0 /\ LastIsDerivable) => HeadsAsRequested(recall_result)

C1_Witness ==
    /\ OutputBuilt
    /\ LastIsDerivable
    /\ output_dim_arg = ListDim(<<2, 3>>)
    /\ Len(output_layers) = 2
    /\ output_layers[1].out_features = 2
    /\ output_layers[2].out_features = 3

----------------------------------------------------------------------------
(* C2 *)

\* C2: a specification with an entry whose tag is not a valid layer type
\* makes construction raise before any layer is built: once construction has
\* taken a step it has failed, and no hidden layer and no output head has
\* been instantiated, wherever the invalid entry stands.
C2_InvalidTagRaisesBeforeAnyLayer ==
    (HasInvalidTag(hidden_layers_info) /\ phases # <<>>) =>
        /\ pc = "failed"
        /\ error # "none"
        /\ built = 0
        /\ hidden_layers = <<>>
        /\ output_layers = <<>>

C2_Witness ==
    /\ Len(hidden_layers_info) = 2
    /\ HasValidTag(hidden_layers_info[1])
    /\ ~HasValidTag(hidden_layers_info[2])
    /\ bad_fields = {}
    /\ pc = "failed"
    /\ built = 0

----------------------------------------------------------------------------
(* C3 *)

\* C3 as stated: every specification whose last hidden entry is not linear
\* or an adaptive pool ends construction with the "don't know dimensions"
\* error and without output heads, and no specification whose last entry is
\* linear or an adaptive pool ends with that error.
C3_AsStated ==
    (Finished /\ hidden_layers_info # <<>>) =>
        IF LastIsDerivable
        THEN error # DontKnowDimensions
        ELSE error = DontKnowDimensions /\ output_layers = <<>>

PassesValidation == bad_fields = {} /\ ~HasInvalidTag(hidden_layers_info)

\* C3: every specification that passes validation and whose last hidden
\* entry is conv, maxpool or avgpool ends construction with the "don't know
\* dimensions" error and without output heads; no specification whose last
\* entry is linear or an adaptive pool ends with that error.
C3_DontKnowDimensions ==
    /\ (Finished /\ hidden_layers_info # <<>> /\ LastIsDerivable) =>
          error # DontKnowDimensions
    /\ (Finished /\ hidden_layers_info # <<>> /\ ~LastIsDerivable
          /\ PassesValidation) =>
          /\ error = DontKnowDimensions
          /\ output_layers = <<>>
          /\ TagIs(LastEntry, conv) \/ TagIs(LastEntry, maxpool)
                \/ TagIs(LastEntry, avgpool)

C3_Witness ==
    /\ pc = "failed"
    /\ error = DontKnowDimensions
    /\ hidden_layers_info # <<>>
    /\ TagIs(LastEntry, maxpool)
    /\ Len(hidden_layers) = Len(hidden_layers_info)
    /\ output_layers = <<>>

----------------------------------------------------------------------------
(* C4 *)

\* The output count of the nearest entry before position i that is conv or
\* linear, in_dim when there is none.
RECURSIVE NearestConvOrLinearOut(_, _, _)
NearestConvOrLinearOut(info, i, in_dim) ==
    IF i <= 1 THEN in_dim
    ELSE IF TagIs(info[i - 1], conv) THEN info[i - 1][2]
    ELSE IF TagIs(info[i - 1], linear) THEN info[i - 1][3]
    ELSE NearestConvOrLinearOut(info, i - 1, in_dim)

\* The output channels of the nearest conv entry before position i, in_dim
\* when there is none.
RECURSIVE NearestConvOut(_, _, _)
NearestConvOut(info, i, in_dim) ==
    IF i <= 1 THEN in_dim
    ELSE IF TagIs(info[i - 1], conv) THEN info[i - 1][2]
    ELSE NearestConvOut(info, i - 1, in_dim)

\* C4 as stated: the input size of every conv or linear layer is the output
\* count of the nearest preceding conv or linear entry, input_dim when there
\* is none.
C4_AsStated ==
    HiddenBuilt =>
        \A i \in DOMAIN hidden_layers :
            /\ hidden_layers[i].kind = "Conv2d" =>
                  hidden_layers[i].in_channels =
                      NearestConvOrLinearOut(hidden_layers_info, i, input_dim)
            /\ hidden_layers[i].kind = "Linear" =>
                  hidden_layers[i].in_features =
                      NearestConvOrLinearOut(hidden_layers_info, i, input_dim)

\* C4: the input channels of every conv layer are the output channels of the
\* nearest preceding conv entry, input_dim when there is none; every other
\* entry, linear included, passes the running count through unchanged; a
\* linear layer takes its input size from its own entry.
C4_ChannelThreading ==
    HiddenBuilt =>
        \A i \in DOMAIN hidden_layers :
            /\ hidden_layers[i].kind = "Conv2d" =>
                  hidden_layers[i].in_channels =
                      NearestConvOut(hidden_layers_info, i, input_dim)
            /\ hidden_layers[i].kind = "Linear" =>
                  hidden_layers[i].in_features = hidden_layers_info[i][2]

C4_Witness ==
    /\ HiddenBuilt
    /\ Len(hidden_layers) = 2
    /\ hidden_layers[1].kind = "Linear"
    /\ hidden_layers[2].kind = "Conv2d"
    /\ hidden_layers[2].in_channels = input_dim
    /\ hidden_layers[1].out_features # input_dim

----------------------------------------------------------------------------
(* C5 *)

\* The layer an entry asks for, but for the input channels of a convolution.
EntryMatchesLayer(e, l) ==
    /\ TagIs(e, conv) =>
          /\ l.kind = "Conv2d"
          /\ l.out_channels = e[2]
          /\ l.kernel_size = e[3]
          /\ l.stride = e[4]
          /\ l.padding = e[5]
    /\ TagIs(e, maxpool) =>
          /\ l.kind = "MaxPool2d"
          /\ l.kernel_size = e[2]
          /\ l.stride = e[3]
          /\ l.padding = e[4]
    /\ TagIs(e, avgpool) =>
          /\ l.kind = "AvgPool2d"
          /\ l.kernel_size = e[2]
          /\ l.stride = e[3]
          /\ l.padding = e[4]
    /\ TagIs(e, adaptivemaxpool) =>
          /\ l.kind = "AdaptiveMaxPool2d"
          /\ l.output_size = <<e[2], e[3]>>
    /\ TagIs(e, adaptiveavgpool) =>
          /\ l.kind = "AdaptiveAvgPool2d"
          /\ l.output_size = <<e[2], e[3]>>
    /\ TagIs(e, linear) =>
          /\ l.kind = "Linear"
          /\ l.in_features = e[2]
          /\ l.out_features = e[3]

\* C5: when every tag is valid, create_hidden_layers returns one layer per
\* entry, in the order of hidden_layers_info, the i-th layer of the kind the
\* i-th tag names and with that entry's parameters.
C5_OneLayerPerEntry ==
    /\ HiddenBuilt =>
          /\ Len(hidden_layers) = Len(hidden_layers_info)
          /\ \A i \in DOMAIN hidden_layers :
                EntryMatchesLayer(hidden_layers_info[i], hidden_layers[i])
    /\ ("create_hidden" \in {phases[k] : k \in DOMAIN phases}
          /\ ~HasInvalidTag(hidden_layers_info)) => HiddenBuilt

C5_Witness ==
    /\ HiddenBuilt
    /\ Len(hidden_layers) = 2
    /\ hidden_layers[1].kind = "MaxPool2d"
    /\ hidden_layers[2].kind = "AvgPool2d"

----------------------------------------------------------------------------
(* C6 *)

\* The width the last entry declares: height x width of an adaptive pool,
\* the output features of a linear entry.
DeclaredWidth ==
    IF LastIsAdaptive THEN LastEntry[2] * LastEntry[3] ELSE LastEntry[3]

\* C6: the input width of every output head is the declared height x width
\* of a final adaptive pool, or the declared output features of a final
\* linear entry, whatever input_dim and the preceding channel counts are.
C6_HeadWidthFromLastLayer ==
    /\ OutputBuilt =>
          \A i \in DOMAIN output_layers :
              output_layers[i].in_features = DeclaredWidth
    /\ recalls > 0 =>
          \A i \in DOMAIN recall_result :
              recall_result[i].in_features = DeclaredWidth

C6_Witness ==
    /\ OutputBuilt
    /\ Len(hidden_layers) = 2
    /\ hidden_layers[1].kind = "Conv2d"
    /\ hidden_layers[1].out_channels = 16
    /\ hidden_layers[2].kind = "AdaptiveMaxPool2d"
    /\ hidden_layers[2].output_size = <<2, 3>>
    /\ output_layers[1].in_features = 6

----------------------------------------------------------------------------
(* C7 *)

ClaimedPhases ==
    <<"validate", "create_hidden", "create_output", "initialise", "summary">>

IsPrefix(s, t) == Len(s) <= Len(t) /\ \A k \in DOMAIN s : s[k] = t[k]

\* C7: the phases start in the order validate, build hidden layers, build
\* output layers, initialise parameters, print summary, each at most once; a
\* phase starts only when all earlier ones returned normally; a phase that
\* raises is the last one to start; construction is done only with every
\* phase completed and the whole network built.
C7_SingleLinearPass ==
    /\ IsPrefix(phases, ClaimedPhases)
    /\ IsPrefix(completed, phases)
    /\ error = "none" => completed = phases
    /\ error # "none" =>
          /\ pc = "failed"
          /\ Len(phases) = Len(completed) + 1
    /\ pc = "failed" => error # "none"
    /\ (\E k \in DOMAIN phases : phases[k] = "summary") => print_model_summary
    /\ pc = "done" =>
          /\ error = "none"
          /\ Len(completed) = (IF print_model_summary THEN 5 ELSE 4)
          /\ Len(hidden_layers) = Len(hidden_layers_info)
          /\ Len(output_layers) = Len(RequestedDims)
          /\ initialised = <<"hidden_layers", "output_layers">>

C7_Witness ==
    /\ pc = "done"
    /\ phases = ClaimedPhases
    /\ completed = ClaimedPhases

----------------------------------------------------------------------------
(* C8 *)

ClaimedChecks ==
    <<"input_dim", "output_dim", "hidden_layers", "activations", "initialiser",
      "y_range">>

FieldInvalid(f) ==
    IF f = "hidden_layers" THEN HasInvalidTag(hidden_layers_info)
    ELSE f \in bad_fields

\* C8: the checks run in the order input_dim, output_dim, hidden layers,
\* activations, initialiser, y_range; the error is the one of the earliest
\* invalid field and no later check runs; with every field valid all six
\* checks run, none raises and nothing of the network has changed.
C8_FailFastInOrder ==
    phases # <<>> =>
        /\ IsPrefix(checked, ClaimedChecks)
        /\ \A k \in DOMAIN checked :
              k < Len(checked) => ~FieldInvalid(checked[k])
        /\ IF \E k \in DOMAIN ClaimedChecks : FieldInvalid(ClaimedChecks[k])
           THEN /\ pc = "failed"
                /\ error = checked[Len(checked)]
                /\ FieldInvalid(error)
                /\ \A k \in DOMAIN ClaimedChecks :
                      FieldInvalid(ClaimedChecks[k]) => k >= Len(checked)
           ELSE /\ checked = ClaimedChecks
                /\ completed # <<>> /\ completed[1] = "validate"
                /\ completed = <<"validate">> =>
                      /\ error = "none"
                      /\ hidden_layers = <<>>
                      /\ output_layers = <<>>
                      /\ built = 0
                      /\ initialised = <<>>
                      /\ output_dim = output_dim_arg

C8_Witness ==
    /\ pc = "failed"
    /\ bad_fields = {"output_dim", "y_range"}
    /\ HasInvalidTag(hidden_layers_info)
    /\ error = "output_dim"
    /\ checked = <<"input_dim", "output_dim">>

----------------------------------------------------------------------------
(* C9 *)

SameLetter(c, d) ==
    \/ c = d
    \/ \E k \in DOMAIN UpperLetters :
          {c, d} = {UpperLetters[k], LowerLetters[k]}

\* Two tags that differ at most in letter case.
SameIgnoringCase(s, t) ==
    /\ Len(s) = Len(t)
    /\ \A k \in DOMAIN s : SameLetter(s[k], t[k])

\* Entry e with its tag written in any other letter case.
RespelledEntries(e) ==
    { [e EXCEPT ![1] = s] : s \in {t \in TagSpellings : SameIgnoringCase(t, e[1])} }

\* The specifications that differ from info only in the letter case of tags.
RECURSIVE Respellings(_)
Respellings(info) ==
    IF info = <<>> THEN { <<>> }
    ELSE { <<e>> \o rest : e \in RespelledEntries(Head(info)),
                           rest \in Respellings(Tail(info)) }

\* C9: writing any tag in another letter case changes neither what
\* create_hidden_layers returns or raises, nor the heads or the error of
\* create_output_layers.
C9_TagsIgnoreCase ==
    \A t \in Respellings(hidden_layers_info) :
        /\ create_hidden_layers(input_dim, t)
              = create_hidden_layers(input_dim, hidden_layers_info)
        /\ HiddenBuilt =>
              /\ create_hidden_layers(input_dim, t).layers = hidden_layers
              /\ LET r == create_output_layers(t, hidden_layers, output_dim_arg)
                 IN  /\ OutputBuilt =>
                          r.error = "none" /\ r.layers = output_layers
                     /\ (pc = "failed" /\ OutputStarted) => r.error = error

C9_Witness ==
    /\ OutputBuilt
    /\ Len(hidden_layers_info) = 2
    /\ hidden_layers_info[1][1] = conv
    /\ hidden_layers_info[2][1] = LinearUpper
    /\ Cardinality(Respellings(hidden_layers_info)) = 4
    /\ hidden_layers[1].kind = "Conv2d"
    /\ hidden_layers[2].kind = "Linear"

----------------------------------------------------------------------------
(* C10 *)

\* C10: create_hidden_layers leaves hidden_layers_info, input_dim and
\* output_dim as they are; create_output_layers leaves hidden_layers_info and
\* input_dim as they are and, when it returns, has turned an integer
\* output_dim into the one-element list of it and left a list as it is;
\* called again, it returns the same heads and changes nothing.
C10_SpecificationUnaltered ==
    [][ /\ pc = "create_hidden" =>
              /\ hidden_layers_info' = hidden_layers_info
              /\ input_dim' = input_dim
              /\ output_dim' = output_dim
        /\ pc \in {"create_output", "done"} =>
              /\ hidden_layers_info' = hidden_layers_info
              /\ input_dim' = input_dim
              /\ output_dim.kind = "list" => output_dim' = output_dim
              /\ (output_dim.kind = "int" /\ pc' # "failed") =>
                    /\ output_dim'.kind = "list"
                    /\ output_dim'.value = <<output_dim.value>>
              /\ (output_dim.kind = "int" /\ pc' = "failed") =>
                    output_dim' = output_dim
        /\ pc = "done" =>
              /\ output_dim' = output_dim
              /\ recall_result' = output_layers
      ]_vars

C10_Witness ==
    /\ recalls = 1
    /\ output_dim_arg.kind = "int"
    /\ output_dim.kind = "list"
    /\ output_dim.value = <<output_dim_arg.value>>
    /\ recall_result = output_layers
    /\ Len(recall_result) = 1

====
